---- MODULE Spec2Model ----
(***************************************************************************)
(* HDL-Buspro integration: UDP transport (UDPClient), Network Interface,   *)
(* Light device and the inbound dispatch path, as a state machine.         *)
(*                                                                         *)
(* Coroutines are modelled at the granularity of their lock acquisitions   *)
(* and of the hand-over of the datagram to the socket; every schedule of   *)
(* the single event loop is one of the interleavings of these steps.       *)
(***************************************************************************)
EXTENDS Integers, Sequences, FiniteSets, TLC

None == "None"

\* ---------------------------------------------------------------- bounds
NumCallers == 2     \* number of concurrent issuers of commands
NumSenders == 4     \* number of concurrent direct callers of send_telegram
MaxElapsed == 5     \* the clock of a call stops being advanced there

\* ------------------------------------------------------------ configuration
CallerNames == <<"p1", "p2", "p3", "p4">>
Callers == {CallerNames[i] : i \in 1..NumCallers}
SenderNames == <<"s1", "s2", "s3", "s4", "s5", "s6">>
Senders == {SenderNames[i] : i \in 1..NumSenders}
Tasks == Callers \cup Senders
Devices == {"L1", "L2", "L3"}           \* configured Light channels
DeviceOrder == <<"L1", "L2", "L3">>     \* order of registration
Covers == {"K1", "K2"}                  \* configured Cover channels
CoverStates == {"open", "closed"}       \* what a cover is known to be
Addr1 == <<1, 1>>
Addr2 == <<1, 2>>
Addresses == {Addr1, Addr2}
device_address == [d \in Devices |-> IF d = "L3" THEN Addr2 ELSE Addr1]
channel == [d \in Devices |-> IF d = "L2" THEN 2 ELSE 1]
Levels == {0, 80, 100}                  \* channel levels used as inputs
GatewaySend == "gateway_address_send"
GatewayReceive == "gateway_address_receive"

\* ------------------------------------------------------------ operate codes
SingleChannelControl == 49              \* 0x0031
SingleChannelControlResponse == 50      \* 0x0032
ReadStatusOfChannels == 51              \* 0x0033
ReadStatusOfChannelsResponse == 52      \* 0x0034
SceneControlResponse == 3               \* 0x0003

\* ------------------------------------------------------------ telegram codec
\* Wire format: marker, source address, target address, device type,
\* operate code (2 bytes each), payload.
Marker == <<170, 170>>
DeviceType == <<0, 0>>
HeaderLen == 10
MalformedFrame == [error |-> "MalformedFrame"]

MinPayload(op) ==
    CASE op = SingleChannelControl -> 4
      [] op = SingleChannelControlResponse -> 3
      [] op = ReadStatusOfChannelsResponse -> 1
      [] OTHER -> 0

\* An encoder that writes the target address before the source address.
build_send_buffer_swapped(t) ==
    Marker \o t.target_address \o t.source_address \o DeviceType
           \o <<t.operate_code \div 256, t.operate_code % 256>> \o t.payload

build_send_buffer(t) ==
    Marker \o t.source_address \o t.target_address \o DeviceType
           \o <<t.operate_code \div 256, t.operate_code % 256>> \o t.payload

build_telegram_from_udp_data(data) ==
    IF Len(data) < HeaderLen \/ SubSeq(data, 1, 2) # Marker
    THEN MalformedFrame
    ELSE LET op == data[9] * 256 + data[10]
             payload == SubSeq(data, HeaderLen + 1, Len(data))
         IN  IF Len(payload) < MinPayload(op)
             THEN MalformedFrame
             ELSE [source_address |-> SubSeq(data, 3, 4),
                   target_address |-> SubSeq(data, 5, 6),
                   operate_code |-> op,
                   payload |-> payload]

\* ------------------------------------------------------------------ state
\* An optional level: Python's None, or the level v.
NoLevel == <<>>
Level(v) == <<v>>

VARIABLES
    transport,          \* UDPClient.transport: None, "open" or "closed" endpoint
    udp_client,         \* NetworkInterface.udp_client: "UDPClient" or None
    callback,           \* NetworkInterface.callback: None or the registered one
    ni_send_lock,       \* NetworkInterface._send_lock: None or its holder
    udp_send_lock,      \* UDPClient._send_lock: None or its holder
    command_lock,       \* Light._command_lock per device: None or its holder
    brightness,         \* Light._brightness per device
    previous_brightness,\* Light._previous_brightness per device: NoLevel
                        \* (Python's None) or Level(v)
    pc,                 \* per caller: position in Light._set / send_telegram
    dev,                \* per caller: the Light the command is issued on
    intensity,          \* per caller: the commanded level
    via,                \* per caller: the entry point the command came in by
    elapsed,            \* per task: time since its send_telegram call began
    armed,              \* per task: time since its send timeouts were armed
    replaced,           \* the callback the last register_callback overwrote
    _status,            \* Cover._status per cover: None (not read yet) or the
                        \* state the cover is known to be in
    last                \* what the last step did and returned (see NoLast)

vars == <<transport, udp_client, callback, ni_send_lock, udp_send_lock,
          command_lock, brightness, previous_brightness, pc, dev, intensity,
          via, elapsed, armed, replaced, _status, last>>

lifecycle_vars == <<transport, udp_client>>
device_vars == <<brightness, previous_brightness>>
caller_vars == <<pc, dev, intensity, via>>
clock_vars == <<elapsed, armed>>
lock_vars == <<ni_send_lock, udp_send_lock, command_lock>>

\* op:         "start", "stop", "set" (a set_on/set_off/set_brightness call
\*             returned), "receive", or None for a step that returns nothing
\* arg:        start: what the system did; stop: the object stopped;
\*             set: how the call ended; receive: what was received
\* value:      how the operation ended: it returned "True" or "False", it
\*             "returned" (without a value) or it "raised"
\* sent:       set: what send_telegram returned, None if it was not called
\* udp:        set: what UDPClient.send_message returned, None if not called
\* handed:     set: the address the datagram was handed to the socket for
\* was:        stop: UDPClient.transport when stop was called
\* closed:     stop: transport.close() was called
\* telegram:   receive: the telegram decoding gave, None if none
\* dispatched: receive: the registered callback was invoked
\* escaped:    receive: an exception left datagram_received
\* notified:   the devices whose observers the step notified
\* reads:      receive: the devices that requested a status read
\* data:       receive: the datagram, when there was a callback to decode for
\* cb:         receive: the callback that was invoked, None if none
\* delivered:  receive: the telegrams the callback was invoked with, in order
\* via:        set: the entry point the command came in by
\* device:     set, turn: the device of the command
\* refresh:    the devices for which the entity scheduled a status read
\* attempts:   set, send: the number of times sendto was called
\* scc:        set: the command handed to the socket, None if none was
\* Further values of op: "register" (arg: the callback), "turn" (the entity's
\* async_turn_on / async_turn_off wrote the level), "send_command" (the
\* entity's task ended without a return of the set call), "send" (a direct
\* send_telegram call returned), "codec" (a telegram was encoded and decoded).
NoLast == [op |-> None, arg |-> None, value |-> None, sent |-> None, udp |-> None,
           handed |-> None, was |-> None, closed |-> FALSE, telegram |-> None,
           dispatched |-> FALSE, escaped |-> FALSE, notified |-> {}, reads |-> {},
           data |-> None, cb |-> None, delivered |-> <<>>, via |-> None,
           device |-> None, refresh |-> {}, attempts |-> 0, scc |-> None,
           kwargs |-> <<>>]

\* State after construction of the NetworkInterface (with its UDPClient) and
\* of the Light devices.
Init ==
    /\ transport = None
    /\ udp_client = "UDPClient"
    /\ callback = None
    /\ ni_send_lock = None
    /\ udp_send_lock = None
    /\ command_lock = [d \in Devices |-> None]
    /\ brightness = [d \in Devices |-> 0]
    /\ previous_brightness = [d \in Devices |-> NoLevel]
    /\ pc = [p \in Tasks |-> "idle"]
    /\ dev = [p \in Tasks |-> None]
    /\ intensity = [p \in Tasks |-> 0]
    /\ via = [p \in Tasks |-> None]
    /\ elapsed = [p \in Tasks |-> 0]
    /\ armed = [p \in Tasks |-> 0]
    /\ replaced = None
    /\ _status = [k \in Covers |-> None]
    /\ last = NoLast

\* ------------------------------------------------------- transport lifecycle
Callbacks == {"f", "g"}
StartOutcomes == {"bind_failed", "endpoint_failed", "not_ready", "ready"}

\* UDPClient._connect, given what the operating system and the loop do:
\* the value UDPClient.transport holds afterwards.
_connect(outcome) ==
    IF outcome \in {"bind_failed", "endpoint_failed"} THEN transport ELSE "open"

\* UDPClient.start / UDPClient._connect: how the call ends.
start_ends(outcome) == "returned"

\* NetworkInterface.start -> UDPClient.start -> UDPClient._connect
Start(outcome) ==
    /\ IF udp_client = None
       THEN \* AttributeError: None has no start()
            /\ last' = [NoLast EXCEPT !.op = "start", !.arg = "no_client",
                                      !.value = "raised"]
            /\ UNCHANGED transport
       ELSE /\ transport' = _connect(outcome)
            /\ last' = [NoLast EXCEPT !.op = "start", !.arg = outcome,
                                      !.value = start_ends(outcome)]
    /\ UNCHANGED <<udp_client, callback, replaced, _status>>
    /\ UNCHANGED <<device_vars, caller_vars, lock_vars, clock_vars>>

\* A stop that leaves the endpoint open while a send is in flight.
stop_closes_when_idle ==
    transport # None /\ \A p \in DOMAIN pc : pc[p] # "sendto"

\* UDPClient.stop: does it call transport.close()?
stop_closes == transport # None

\* UDPClient.stop, called directly on the transport
UDPStop ==
    /\ transport' = IF stop_closes THEN "closed" ELSE transport
    /\ last' = [NoLast EXCEPT !.op = "stop", !.arg = "transport",
                              !.was = transport, !.closed = stop_closes]
    /\ UNCHANGED <<udp_client, callback, replaced, _status>>
    /\ UNCHANGED <<device_vars, caller_vars, lock_vars, clock_vars>>

\* NetworkInterface.stop: does it stop the transport and forget it?
ni_stops == udp_client # None

\* NetworkInterface.stop
NIStop ==
    /\ IF ni_stops
       THEN /\ transport' = IF stop_closes THEN "closed" ELSE transport
            /\ udp_client' = None
            /\ last' = [NoLast EXCEPT !.op = "stop", !.arg = "interface",
                                      !.was = transport, !.closed = stop_closes]
       ELSE /\ UNCHANGED <<transport, udp_client>>
            /\ last' = [NoLast EXCEPT !.op = "stop", !.arg = "interface",
                                      !.was = transport]
    /\ UNCHANGED <<callback, replaced, _status>>
    /\ UNCHANGED <<device_vars, caller_vars, lock_vars, clock_vars>>

\* register_callback that keeps the callback registered first.
register_callback_keeps_first(cb) == IF callback = None THEN cb ELSE callback

\* NetworkInterface.register_callback: the callback held afterwards
register_callback(cb) == cb

\* NetworkInterface.register_callback
RegisterCallback(cb) ==
    /\ callback' = register_callback(cb)
    /\ replaced' = IF callback \in {None, cb} THEN replaced ELSE callback
    /\ last' = [NoLast EXCEPT !.op = "register", !.arg = cb]
    /\ UNCHANGED <<lifecycle_vars, _status>>
    /\ UNCHANGED <<device_vars, caller_vars, lock_vars, clock_vars>>

\* ------------------------------------------------------------ Light commands
\* A device that remembers every level, 0 included.
_set_previous_brightness_always(d, b) == Level(b)

\* Light._set_previous_brightness: the new value of _previous_brightness
_set_previous_brightness(d, b) ==
    IF b > 0 THEN Level(b) ELSE previous_brightness[d]

\* Light._set without the optimistic write.
optimistic_brightness_kept(d, v) == brightness[d]

\* Light._set, the optimistic write: the new value of _brightness
optimistic_brightness(d, v) == v

\* Light._set: the devices whose observers the optimistic write notifies
optimistic_notifies(d) == {}

\* _SingleChannelControl.send: how the call ends, r being what send_telegram
\* did: it hands the telegram to send_telegram and returns when that returns
send(r) == IF r = "raised" THEN "raised" ELSE "returned"

\* Light._set without its handler of exceptions.
_set_returns_uncaught(r) == IF r = "raised" THEN "raised" ELSE "True"

\* Light._set: how the call ends, r being what preparing the command and
\* awaiting scc.send() did: it "returned", or an exception was "raised"
_set_returns(r) == IF r = "raised" THEN "False" ELSE "True"

\* Light._set: how the call ends when its timeout expires
_set_timeout == "False"

\* The entry points of the entity: async_turn_on with and without a
\* brightness, async_turn_off.
EntityVias == {"turn_on_brightness", "turn_on", "turn_off"}

\* Light.current_brightness: the published level of the device
current_brightness(d) == brightness[d]

\* Light.is_on
is_on(d) == brightness[d] > 0

\* BusproLight.async_turn_on: the level for the keyword arguments kw,
\* <<b>> with the host brightness b or <<>> without one
target_brightness(d, kw) ==
    IF kw # <<>>
    THEN (kw[1] * 100) \div 255
    ELSE IF previous_brightness[d] # NoLevel /\ ~is_on(d)
         THEN previous_brightness[d][1]
         ELSE 100

\* Keyword arguments of async_turn_on used as inputs: none, or a host
\* brightness (0..255).
HostBrightness == {2, 128, 255}
TurnOnArgs == {<<>>} \cup {<<b>> : b \in HostBrightness}

\* send_command of the entity: does it schedule async_read_status, v being
\* what awaiting the set call gave ("True", "False", "raised", "timeout")?
send_command_refreshes(v) == v # "True"

\* The devices for which the issuer p of a command schedules a status read
\* when the command ended with v.
refresh(p, v) ==
    IF via[p] \in EntityVias /\ send_command_refreshes(v) THEN {dev[p]} ELSE {}

\* The task p is back where it can issue the next command.
Returned(p) ==
    /\ pc' = [pc EXCEPT ![p] = "idle"]
    /\ dev' = [dev EXCEPT ![p] = None]
    /\ intensity' = [intensity EXCEPT ![p] = 0]
    /\ via' = [via EXCEPT ![p] = None]
    /\ elapsed' = [elapsed EXCEPT ![p] = 0]
    /\ armed' = [armed EXCEPT ![p] = 0]

\* An exit that leaves the device's command lock held.
released_never(p) == command_lock

\* The device's command lock, released by p when p is a command of a device.
released(p) ==
    IF dev[p] \in Devices THEN [command_lock EXCEPT ![dev[p]] = None] ELSE command_lock

\* set_on() / set_off() / set_brightness(v): the coroutine is created and
\* awaits the device's command lock
Call(p, d, v) ==
    /\ pc[p] = "idle"
    /\ pc' = [pc EXCEPT ![p] = "command_lock"]
    /\ dev' = [dev EXCEPT ![p] = d]
    /\ intensity' = [intensity EXCEPT ![p] = v]
    /\ via' = [via EXCEPT ![p] = "set"]
    /\ last' = NoLast
    /\ UNCHANGED <<lifecycle_vars, callback, replaced, _status, device_vars, lock_vars, clock_vars>>

\* BusproLight.async_turn_on(**kw): computes the level, writes it to the
\* device and creates the task send_command
AsyncTurnOn(p, d, kw) ==
    /\ pc[p] = "idle"
    /\ brightness' = [brightness EXCEPT ![d] = target_brightness(d, kw)]
    /\ pc' = [pc EXCEPT ![p] = "send_command"]
    /\ dev' = [dev EXCEPT ![p] = d]
    /\ intensity' = [intensity EXCEPT ![p] = target_brightness(d, kw)]
    /\ via' = [via EXCEPT ![p] = IF kw # <<>> THEN "turn_on_brightness" ELSE "turn_on"]
    /\ last' = [NoLast EXCEPT !.op = "turn", !.arg = via'[p], !.device = d,
                              !.kwargs = kw]
    /\ UNCHANGED <<lifecycle_vars, callback, replaced, _status, previous_brightness,
                   lock_vars, clock_vars>>

\* BusproLight.async_turn_off: writes level 0 to the device and creates the
\* task send_command
AsyncTurnOff(p, d) ==
    /\ pc[p] = "idle"
    /\ brightness' = [brightness EXCEPT ![d] = 0]
    /\ pc' = [pc EXCEPT ![p] = "send_command"]
    /\ dev' = [dev EXCEPT ![p] = d]
    /\ intensity' = [intensity EXCEPT ![p] = 0]
    /\ via' = [via EXCEPT ![p] = "turn_off"]
    /\ last' = [NoLast EXCEPT !.op = "turn", !.arg = "turn_off", !.device = d]
    /\ UNCHANGED <<lifecycle_vars, callback, replaced, _status, previous_brightness,
                   lock_vars, clock_vars>>

\* send_command of the entity starts to run: it calls set_brightness(target),
\* set_on() or set_off()
SendCommand(p) ==
    LET d == dev[p] IN
    /\ pc[p] = "send_command"
    /\ pc' = [pc EXCEPT ![p] = "command_lock"]
    /\ intensity' = [intensity EXCEPT ![p] =
           CASE via[p] = "turn_on_brightness" -> intensity[p]
             [] via[p] = "turn_off" -> 0
             [] OTHER -> IF previous_brightness[d] # NoLevel /\ ~is_on(d)
                         THEN intensity[p]
                         ELSE 100]
    /\ last' = NoLast
    /\ UNCHANGED <<lifecycle_vars, callback, replaced, _status, device_vars, lock_vars,
                   clock_vars, dev, via>>

\* A lock that lets every caller in.
may_acquire_unlocked(lock) == TRUE

\* asyncio.Lock: may the caller take it?
may_acquire(lock) == lock = None

\* send_command of the entity: its 500 ms timeout expires while the set call
\* waits for the device's command lock
CommandTimeout(p) ==
    /\ pc[p] = "command_lock"
    /\ via[p] \in EntityVias
    /\ ~may_acquire(command_lock[dev[p]])
    /\ Returned(p)
    /\ last' = [NoLast EXCEPT !.op = "send_command", !.arg = "command_timeout",
                              !.via = via[p], !.device = dev[p],
                              !.refresh = refresh(p, "timeout")]
    /\ UNCHANGED <<lifecycle_vars, callback, replaced, _status, device_vars, lock_vars>>

\* Light._set up to the send: takes the command lock, writes the state,
\* prepares the command (built = FALSE: preparing it raises)
EnterSet(p, built) ==
    LET d == dev[p] IN
    /\ pc[p] = "command_lock"
    /\ may_acquire(command_lock[d])
    /\ brightness' = [brightness EXCEPT ![d] = optimistic_brightness(d, intensity[p])]
    /\ previous_brightness' =
           [previous_brightness EXCEPT ![d] = _set_previous_brightness(d, brightness'[d])]
    /\ IF built
       THEN /\ command_lock' = [command_lock EXCEPT ![d] = p]
            /\ pc' = [pc EXCEPT ![p] = "ni_send_lock"]
            /\ last' = [NoLast EXCEPT !.notified = optimistic_notifies(d)]
            /\ UNCHANGED <<dev, intensity, via, clock_vars>>
       ELSE /\ UNCHANGED command_lock
            /\ Returned(p)
            /\ last' = [NoLast EXCEPT !.op = "set", !.arg = "build_raised",
                                      !.value = _set_returns("raised"),
                                      !.via = via[p], !.device = d,
                                      !.refresh = refresh(p, _set_returns("raised")),
                                      !.notified = optimistic_notifies(d)]
    /\ UNCHANGED <<lifecycle_vars, callback, replaced, _status, ni_send_lock, udp_send_lock>>

\* Light._set: the 500 ms timeout expires while scc.send() waits for the
\* Network Interface's send lock
SetTimeout(p) ==
    /\ pc[p] = "ni_send_lock"
    /\ dev[p] \in Devices
    /\ ~may_acquire(ni_send_lock)
    /\ command_lock' = released(p)
    /\ Returned(p)
    /\ last' = [NoLast EXCEPT !.op = "set", !.arg = "set_timeout",
                              !.value = _set_timeout,
                              !.via = via[p], !.device = dev[p],
                              !.refresh = refresh(p, _set_timeout)]
    /\ UNCHANGED <<lifecycle_vars, callback, replaced, _status, device_vars,
                   ni_send_lock, udp_send_lock>>

\* ---------------------------------------------------------- outbound path
\* The timeouts of the send path, in units of 500 ms.
RawSendTimeout == 1         \* UDPClient.send_message: asyncio.timeout(0.5)
SendMessageTimeout == 2     \* NetworkInterface._send_message: asyncio.timeout(1.0)
SendTelegramTimeout == 3    \* NetworkInterface.send_telegram: asyncio.timeout(1.5)
CommandTimeLimit == 1       \* Light._set: asyncio.timeout(0.5)
SendCommandTimeLimit == 1   \* send_command of the entity: asyncio.timeout(0.5)

\* UDPClient.send_message: is there an endpoint to send on?
has_endpoint == transport # None

\* UDPClient.send_message: how the call ends without an endpoint
send_message_no_endpoint == "False"

\* NetworkInterface._send_message: how the call ends, r being what the call
\* of udp_client.send_message did
_send_message(r) == IF r = "raised" THEN "False" ELSE r

\* NetworkInterface.send_telegram: how the call ends, r being what
\* _send_message did
send_telegram(r) == IF r = "raised" THEN "False" ELSE r

\* A task calls NetworkInterface.send_telegram directly (a status read, a
\* command of another device type): it awaits the send lock
CallSend(p) ==
    /\ pc[p] = "idle"
    /\ pc' = [pc EXCEPT ![p] = "ni_send_lock"]
    /\ via' = [via EXCEPT ![p] = "send_telegram"]
    /\ last' = NoLast
    /\ UNCHANGED <<lifecycle_vars, callback, replaced, _status, device_vars, lock_vars,
                   clock_vars, dev, intensity>>

\* A send path that tries once more when the sendto failed or timed out.
send_attempts_retry(outcome) == IF outcome = "sent" THEN 1 ELSE 2

\* NetworkInterface.send_telegram -> _send_message -> send_message: the
\* number of times transport.sendto is called in one call, for what the
\* first sendto did
send_attempts(outcome) == 1

\* Light._set: the single channel control command it prepares for task p
scc(p) ==
    [subnet_device |-> device_address[dev[p]],
     channel_number |-> channel[dev[p]],
     channel_level |-> intensity[p]]

\* What the step in which the send_telegram call of p ends reports: r is what
\* the call of udp_client.send_message did, u what send_message returned
\* (None if it was not entered), h the address the datagram was handed for.
SendEnds(p, how, r, u, h) ==
    LET s == send_telegram(_send_message(r))
        v == IF dev[p] \in Devices THEN _set_returns(send(s)) ELSE s
    IN  [NoLast EXCEPT !.op = IF dev[p] \in Devices THEN "set" ELSE "send",
                       !.arg = how, !.udp = u, !.sent = s, !.value = v,
                       !.handed = h, !.via = via[p], !.device = dev[p],
                       !.refresh = refresh(p, v),
                       !.attempts = IF how \in {"no_client", "no_endpoint"}
                                    THEN 0 ELSE send_attempts(how),
                       !.scc = IF h # None /\ dev[p] \in Devices THEN scc(p) ELSE None]

\* NetworkInterface.send_telegram: takes the send lock, encodes, and calls
\* _send_message -> UDPClient.send_message, which takes the transport's
\* send lock when there is an endpoint; the timeouts start to run
SendTelegramEnter(p) ==
    /\ pc[p] = "ni_send_lock"
    /\ may_acquire(ni_send_lock)
    /\ IF udp_client = None
       THEN \* AttributeError, caught by _send_message; send_telegram and
            \* Light._set return
            /\ command_lock' = released(p)
            /\ Returned(p)
            /\ last' = SendEnds(p, "no_client", "raised", None, None)
            /\ UNCHANGED <<ni_send_lock, udp_send_lock>>
       ELSE IF ~has_endpoint
       THEN /\ command_lock' = released(p)
            /\ Returned(p)
            /\ last' = SendEnds(p, "no_endpoint", send_message_no_endpoint,
                                send_message_no_endpoint, None)
            /\ UNCHANGED <<ni_send_lock, udp_send_lock>>
       ELSE /\ may_acquire(udp_send_lock)
            /\ ni_send_lock' = p
            /\ udp_send_lock' = p
            /\ pc' = [pc EXCEPT ![p] = "sendto"]
            /\ armed' = [armed EXCEPT ![p] = 0]
            /\ last' = NoLast
            /\ UNCHANGED <<dev, intensity, via, elapsed, command_lock>>
    /\ UNCHANGED <<lifecycle_vars, callback, replaced, _status, device_vars>>

SendtoOutcomes == {"sent", "socket_error", "timeout"}

\* UDPClient.send_message: the address the datagram is sent to
sendto_address == GatewaySend

\* UDPClient.send_message without its handler of socket errors.
send_message_returns_uncaught(outcome) ==
    CASE outcome = "sent" -> "True"
      [] outcome = "timeout" -> "False"
      [] OTHER -> "raised"

\* UDPClient.send_message: how the call ends for what the sendto did
send_message_returns(outcome) ==
    CASE outcome = "sent" -> "True"
      [] outcome = "timeout" -> "False"
      [] OTHER -> "False"

\* UDPClient.send_message: transport.sendto under the lock and the timeout;
\* then the locks are released and send_telegram and Light._set return
Sendto(p, outcome) ==
    /\ pc[p] = "sendto"
    /\ udp_send_lock' = None
    /\ ni_send_lock' = None
    /\ command_lock' = released(p)
    /\ Returned(p)
    /\ last' = SendEnds(p, outcome, send_message_returns(outcome),
                        send_message_returns(outcome),
                        IF outcome = "sent" THEN sendto_address ELSE None)
    /\ UNCHANGED <<lifecycle_vars, callback, replaced, _status, device_vars>>

\* Does a timeout that is running for task p end, at the latest, now?
\* The raw send's runs from the hand-over to the socket, Light._set's from
\* the call of scc.send().
timeout_due(p) ==
    \/ pc[p] = "sendto" /\ armed[p] >= RawSendTimeout
    \/ /\ pc[p] \in {"ni_send_lock", "sendto"}
       /\ dev[p] \in Devices
       /\ elapsed[p] >= CommandTimeLimit

\* 500 ms pass: the clocks of the calls in progress advance. A call whose
\* timeout is due ends before more time passes, and so does the wait of a
\* task for a lock that is free (the event loop runs the tasks that are
\* ready before it sleeps)
Tick ==
    /\ \E p \in Tasks : pc[p] \in {"ni_send_lock", "sendto"}
    /\ \A p \in Tasks : ~timeout_due(p)
    /\ \A p \in Tasks : pc[p] = "ni_send_lock" => ~may_acquire(ni_send_lock)
    /\ \A p \in Tasks : elapsed[p] < MaxElapsed
    /\ elapsed' = [p \in Tasks |->
           IF pc[p] \in {"ni_send_lock", "sendto"} THEN elapsed[p] + 1 ELSE elapsed[p]]
    /\ armed' = [p \in Tasks |->
           IF pc[p] = "sendto" THEN armed[p] + 1 ELSE armed[p]]
    /\ last' = NoLast
    /\ UNCHANGED <<lifecycle_vars, callback, replaced, _status, device_vars, caller_vars, lock_vars>>

\* ----------------------------------------------------------- inbound path
\* Python indexes the payload from 0: payload[i] is t.payload[i + 1] here.
has_index(t, i) == i + 1 <= Len(t.payload)

\* A callback that indexes the level of its channel before it compares the
\* channel with the count.
cb_raises_out_of_range(d, t) ==
    CASE t.operate_code = SingleChannelControlResponse ->
             ~has_index(t, 0) \/ ~has_index(t, 2)
      [] t.operate_code = ReadStatusOfChannelsResponse ->
             ~has_index(t, 0) \/ ~has_index(t, channel[d])
      [] OTHER -> FALSE

\* Light._telegram_received_cb: does it raise (IndexError) on telegram t?
cb_raises(d, t) ==
    CASE t.operate_code = SingleChannelControlResponse ->
             ~has_index(t, 0) \/ ~has_index(t, 2)
      [] t.operate_code = ReadStatusOfChannelsResponse ->
             \/ ~has_index(t, 0)
             \/ (channel[d] <= t.payload[1] /\ ~has_index(t, channel[d]))
      [] OTHER -> FALSE

\* Light._telegram_received_cb without the comparison of the channel of a
\* SingleChannelControlResponse.
cb_matches_any_channel(d, t) ==
    CASE t.operate_code = SingleChannelControlResponse -> TRUE
      [] t.operate_code = ReadStatusOfChannelsResponse -> channel[d] <= t.payload[1]
      [] OTHER -> FALSE

\* Light._telegram_received_cb: does telegram t carry a level for device d?
cb_matches(d, t) ==
    CASE t.operate_code = SingleChannelControlResponse -> t.payload[1] = channel[d]
      [] t.operate_code = ReadStatusOfChannelsResponse -> channel[d] <= t.payload[1]
      [] OTHER -> FALSE

\* Light._telegram_received_cb: the level telegram t reports for device d
cb_brightness(d, t) ==
    IF t.operate_code = SingleChannelControlResponse
    THEN t.payload[3]
    ELSE t.payload[channel[d] + 1]

\* A callback that reads the status only for a scene that names its channel.
cb_reads_own_channel(d, t) ==
    /\ t.operate_code = SceneControlResponse
    /\ has_index(t, 0)
    /\ t.payload[1] = channel[d]

\* Light._telegram_received_cb: does telegram t make d request a status read?
cb_reads(d, t) == t.operate_code = SceneControlResponse

\* The dispatch callback's filter: is telegram t addressed to device d?
addressed_to(d, t) == t.target_address = device_address[d]

\* The devices the dispatch callback calls, in registration order, up to
\* and including the first whose callback raises.
Index(d) == CASE d = "L1" -> 1 [] d = "L2" -> 2 [] OTHER -> 3
called(t) ==
    {d \in Devices :
        /\ addressed_to(d, t)
        /\ \A e \in Devices :
              (addressed_to(e, t) /\ Index(e) < Index(d)) => ~cb_raises(e, t)}

\* An interface that decodes and dispatches whether or not a callback is held.
dispatches_always == TRUE

\* NetworkInterface._udp_request_received: does it decode and dispatch?
dispatches == callback # None

\* NetworkInterface._udp_request_received: is the callback invoked with
\* what decoding gave?
invokes_callback(t) == t # MalformedFrame

\* Does an exception leave datagram_received, t being what decoding gave?
escapes(t) ==
    IF t = MalformedFrame THEN TRUE
    ELSE \E d \in called(t) : cb_raises(d, t)

\* A dispatch that invokes the callback twice for one datagram.
delivers_twice(t) == <<t, t>>

\* NetworkInterface._udp_request_received: the telegrams it invokes the
\* callback with, in order, for the telegram t that decoding gave
delivers(t) == <<t>>

\* datagram_received -> _data_received_callback -> _udp_request_received
\* -> dispatch callback -> Light._telegram_received_cb of each device
Receive(data) ==
    /\ transport = "open"
    /\ IF ~dispatches
       THEN /\ last' = [NoLast EXCEPT !.op = "receive", !.arg = "dropped"]
            /\ UNCHANGED device_vars
       ELSE LET t == build_telegram_from_udp_data(data) IN
            IF ~invokes_callback(t)
            THEN /\ last' = [NoLast EXCEPT !.op = "receive", !.arg = "malformed",
                                           !.data = data,
                                           !.escaped = escapes(t)]
                 /\ UNCHANGED device_vars
            ELSE LET run == {d \in called(t) : ~cb_raises(d, t)}
                     upd == {d \in run : cb_matches(d, t)}
                 IN  /\ brightness' = [d \in Devices |->
                            IF d \in upd THEN cb_brightness(d, t) ELSE brightness[d]]
                     /\ previous_brightness' = [d \in Devices |->
                            IF d \in upd
                            THEN _set_previous_brightness(d, brightness'[d])
                            ELSE previous_brightness[d]]
                     /\ last' = [NoLast EXCEPT !.op = "receive", !.arg = "telegram",
                                    !.data = data,
                                    !.telegram = t,
                                    !.dispatched = TRUE,
                                    !.cb = callback,
                                    !.delivered = delivers(t),
                                    !.escaped = escapes(t),
                                    !.notified = upd,
                                    !.reads = {d \in run : cb_reads(d, t)}]
    /\ UNCHANGED <<lifecycle_vars, callback, replaced, _status, caller_vars, lock_vars, clock_vars>>

\* Datagrams the gateway may deliver: frames of response telegrams, well
\* formed or with a level byte missing, and truncated or foreign frames.
Gateway == <<1, 0>>
InLevels == {0, 80}
InPayloads(op) ==
    CASE op = SingleChannelControlResponse ->
             {<<c, 248, l>> : c \in {1, 2}, l \in InLevels}
      [] op = ReadStatusOfChannelsResponse ->
             {<<0>>}
             \cup {<<1, l>> : l \in InLevels}
             \cup {<<2, l, m>> : l \in InLevels, m \in InLevels}
             \cup {<<2, l>> : l \in InLevels}
      [] OTHER -> {<<>>, <<1, 1>>, <<2, 80>>}
InOperateCodes ==
    {SingleChannelControlResponse, ReadStatusOfChannelsResponse, SceneControlResponse}
InTelegrams ==
    UNION {{[source_address |-> Gateway, target_address |-> a, operate_code |-> op,
             payload |-> pl] : pl \in InPayloads(op)}
           : <<a, op>> \in Addresses \X InOperateCodes}
SomeFrame ==
    build_send_buffer([source_address |-> Gateway, target_address |-> Addr1,
                       operate_code |-> SingleChannelControlResponse,
                       payload |-> <<1, 248, 80>>])
Datagrams ==
    {build_send_buffer(t) : t \in InTelegrams}
    \cup {SubSeq(SomeFrame, 1, n) : n \in {0, 4, HeaderLen, HeaderLen + 1}}
    \cup {<<0, 0>> \o SubSeq(SomeFrame, 3, Len(SomeFrame))}

\* A telegram is encoded for sending and the frame is decoded as a received
\* datagram is.
RoundTrip(t) ==
    /\ last' = [NoLast EXCEPT !.op = "codec", !.telegram = t,
                              !.data = build_send_buffer(t),
                              !.delivered =
                                  <<build_telegram_from_udp_data(build_send_buffer(t))>>]
    /\ UNCHANGED <<lifecycle_vars, callback, replaced, _status, device_vars, caller_vars,
                   lock_vars, clock_vars>>

\* Valid telegram records: every supported operate code, with addresses and
\* payloads of bytes.
OperateCodes ==
    {SingleChannelControl, SingleChannelControlResponse, ReadStatusOfChannels,
     ReadStatusOfChannelsResponse, SceneControlResponse}
CodecAddresses == {Gateway, Addr1, <<255, 254>>}
CodecPayloads(op) ==
    CASE op = SingleChannelControl ->
             {<<1, 100, 0, 0>>, <<2, 0, 0, 3>>, <<255, 80, 1, 59>>}
      [] op = SingleChannelControlResponse ->
             {<<1, 248, 100>>, <<2, 245, 0>>, <<255, 248, 80>>}
      [] op = ReadStatusOfChannels -> {<<>>}
      [] op = ReadStatusOfChannelsResponse ->
             {<<0>>, <<1, 80>>, <<2, 0, 100>>, <<3, 170, 170, 0>>}
      [] OTHER -> {<<>>, <<1, 1>>, <<1, 2, 3, 4, 5>>}
ValidTelegrams ==
    UNION {{[source_address |-> a, target_address |-> b, operate_code |-> op,
             payload |-> pl] : pl \in CodecPayloads(op)}
           : <<a, b, op>> \in CodecAddresses \X CodecAddresses \X OperateCodes}

\* --------------------------------------------------------------- covers
\* BusproCover.async_read_status: does it call read_status() on the device?
async_read_status_reads(k) == _status[k] = None

\* BusproCover.async_update, the periodic update of the entity (and the one
\* at setup) -> async_read_status: while the status is None it awaits the
\* device's read_status(), which sends a status read through send_telegram;
\* then it writes the entity's state
AsyncUpdate(p, k) ==
    /\ pc[p] = "idle"
    /\ IF async_read_status_reads(k)
       THEN /\ pc' = [pc EXCEPT ![p] = "ni_send_lock"]
            /\ via' = [via EXCEPT ![p] = "read_status"]
            /\ last' = [NoLast EXCEPT !.op = "update", !.device = k, !.reads = {k}]
       ELSE /\ UNCHANGED <<pc, via>>
            /\ last' = [NoLast EXCEPT !.op = "update", !.device = k]
    /\ UNCHANGED <<lifecycle_vars, callback, replaced, _status, device_vars,
                   lock_vars, clock_vars, dev, intensity>>

\* BusproCover.async_open_cover / async_close_cover -> Cover.set_open /
\* set_close: the state is set optimistically and the command is sent
\* through send_telegram
CoverCommand(p, k, c) ==
    /\ pc[p] = "idle"
    /\ _status' = [_status EXCEPT ![k] = c]
    /\ pc' = [pc EXCEPT ![p] = "ni_send_lock"]
    /\ via' = [via EXCEPT ![p] = "cover_command"]
    /\ last' = [NoLast EXCEPT !.op = "cover", !.arg = c, !.device = k]
    /\ UNCHANGED <<lifecycle_vars, callback, replaced, device_vars, lock_vars,
                   clock_vars, dev, intensity>>

\* A response telegram of the cover's module is received and dispatched: the
\* cover takes the state it reports
CoverReport(k, c) ==
    /\ transport = "open"
    /\ dispatches
    /\ _status' = [_status EXCEPT ![k] = c]
    /\ last' = [NoLast EXCEPT !.op = "cover_report", !.arg = c, !.device = k,
                              !.notified = {k}]
    /\ UNCHANGED <<lifecycle_vars, callback, replaced, device_vars, caller_vars,
                   lock_vars, clock_vars>>

\* ---------------------------------------------------------- specification
Next ==
    \/ \E o \in StartOutcomes : Start(o)
    \/ UDPStop
    \/ NIStop
    \/ \E cb \in Callbacks : RegisterCallback(cb)
    \/ \E p \in Callers, d \in Devices, v \in Levels : Call(p, d, v)
    \/ \E p \in Callers, b \in BOOLEAN : EnterSet(p, b)
    \/ \E p \in Callers : SetTimeout(p)
    \/ \E p \in Tasks : SendTelegramEnter(p)
    \/ \E p \in Tasks, o \in SendtoOutcomes : Sendto(p, o)
    \/ \E data \in Datagrams : Receive(data)
    \/ \E p \in Callers, d \in Devices, kw \in TurnOnArgs : AsyncTurnOn(p, d, kw)
    \/ \E p \in Callers, d \in Devices : AsyncTurnOff(p, d)
    \/ \E p \in Callers : SendCommand(p)
    \/ \E p \in Callers : CommandTimeout(p)
    \/ \E p \in Senders : CallSend(p)
    \/ \E p \in Callers, k \in Covers : AsyncUpdate(p, k)
    \/ \E p \in Callers, k \in Covers, c \in CoverStates : CoverCommand(p, k, c)
    \/ \E k \in Covers, c \in CoverStates : CoverReport(k, c)
    \/ Tick

Spec == Init /\ [][Next]_vars

\* Concurrent commands and the transport's lifecycle, no inbound traffic:
\* set_on / set_off on two lights of one module.
NextSend ==
    \/ \E o \in StartOutcomes : Start(o)
    \/ UDPStop
    \/ NIStop
    \/ \E p \in Callers, d \in {"L1", "L2"}, v \in {0, 100} : Call(p, d, v)
    \/ \E p \in Callers, b \in BOOLEAN : EnterSet(p, b)
    \/ \E p \in Callers : SetTimeout(p)
    \/ \E p \in Callers : SendTelegramEnter(p)
    \/ \E p \in Callers, o \in SendtoOutcomes : Sendto(p, o)

SpecSend == Init /\ [][NextSend]_vars

\* The inbound traffic and one issuer of commands on the light L1, on a
\* transport that is started and not stopped.
NextRx ==
    \/ Start("ready")
    \/ RegisterCallback("f")
    \/ \E v \in Levels : Call("p1", "L1", v)
    \/ \E b \in BOOLEAN : EnterSet("p1", b)
    \/ SendTelegramEnter("p1")
    \/ \E o \in SendtoOutcomes : Sendto("p1", o)
    \/ \E data \in Datagrams : Receive(data)

SpecRx == Init /\ [][NextRx]_vars

\* The lifecycle of the transport, with one light switched on and off.
NextLife ==
    \/ \E o \in StartOutcomes : Start(o)
    \/ UDPStop
    \/ NIStop
    \/ \E cb \in Callbacks : RegisterCallback(cb)
    \/ \E v \in {0, 100} : Call("p1", "L1", v)
    \/ EnterSet("p1", TRUE)
    \/ SendTelegramEnter("p1")
    \/ \E o \in SendtoOutcomes : Sendto("p1", o)

SpecLife == Init /\ [][NextLife]_vars

\* Registration of callbacks and the inbound traffic of one module.
NextCb ==
    \/ Start("ready")
    \/ \E cb \in Callbacks : RegisterCallback(cb)
    \/ \E data \in Datagrams : Receive(data)

SpecCb == Init /\ [][NextCb]_vars

\* The entity layer: lights switched through async_turn_on / async_turn_off
\* by two tasks, on a transport that may be started or not.
NextEntity ==
    \/ \E o \in {"bind_failed", "ready"} : Start(o)
    \/ \E p \in Callers, d \in {"L1", "L2"}, kw \in {<<>>, <<128>>} :
           AsyncTurnOn(p, d, kw)
    \/ \E p \in Callers, d \in {"L1", "L2"} : AsyncTurnOff(p, d)
    \/ \E p \in Callers : SendCommand(p)
    \/ \E p \in Callers : CommandTimeout(p)
    \/ \E p \in Callers : EnterSet(p, TRUE)
    \/ \E p \in Callers : SetTimeout(p)
    \/ \E p \in Callers : SendTelegramEnter(p)
    \/ \E p \in Callers, o \in SendtoOutcomes : Sendto(p, o)

SpecEntity == Init /\ [][NextEntity]_vars

\* Direct callers of send_telegram that call at the same instant, on a
\* started transport, with the time their calls take.
NextTimed ==
    \/ Start("ready")
    \/ \E p \in Senders : (\A q \in Tasks : elapsed[q] = 0) /\ CallSend(p)
    \/ \E p \in Senders : SendTelegramEnter(p)
    \/ \E p \in Senders, o \in SendtoOutcomes : Sendto(p, o)
    \/ Tick

SpecTimed == Init /\ [][NextTimed]_vars

\* One task that switches one light, through the device and through the
\* entity, on a started transport, with the time its sends take.
NextBudget ==
    \/ Start("ready")
    \/ \E v \in Levels : Call("p1", "L1", v)
    \/ AsyncTurnOff("p1", "L1")
    \/ SendCommand("p1")
    \/ EnterSet("p1", TRUE)
    \/ SendTelegramEnter("p1")
    \/ \E o \in SendtoOutcomes : Sendto("p1", o)
    \/ Tick

SpecBudget == Init /\ [][NextBudget]_vars

\* Two tasks that switch two lights, through the device and through the
\* entity, under fair scheduling: the event loop runs a task that is ready,
\* asyncio.Lock wakes its waiters in turn, and a sendto returns or its
\* timeout expires.
LockTasks == {"p1", "p2"}
NextLocks ==
    \/ \E o \in {"bind_failed", "ready"} : Start(o)
    \/ \E p \in LockTasks, d \in {"L1", "L2"} : Call(p, d, 100)
    \/ \E p \in LockTasks, d \in {"L1", "L2"} : AsyncTurnOff(p, d)
    \/ \E p \in LockTasks : SendCommand(p)
    \/ \E p \in LockTasks : CommandTimeout(p)
    \/ \E p \in LockTasks, b \in BOOLEAN : EnterSet(p, b)
    \/ \E p \in LockTasks : SetTimeout(p)
    \/ \E p \in LockTasks : SendTelegramEnter(p)
    \/ \E p \in LockTasks, o \in SendtoOutcomes : Sendto(p, o)

SpecLocks ==
    /\ Init
    /\ [][NextLocks]_vars
    /\ \A p \in LockTasks :
           /\ WF_vars(SendCommand(p))
           /\ SF_vars(\E b \in BOOLEAN : EnterSet(p, b))
           /\ SF_vars(SendTelegramEnter(p))
           /\ WF_vars(\E o \in SendtoOutcomes : Sendto(p, o))

\* One light switched on and off only after a stop(), of the transport or
\* of the interface, has completed.
NextStopped ==
    \/ \E o \in {"bind_failed", "ready"} : Start(o)
    \/ UDPStop
    \/ NIStop
    \/ \E v \in {0, 100} :
           (transport = "closed" \/ udp_client = None) /\ Call("p1", "L1", v)
    \/ EnterSet("p1", TRUE)
    \/ SendTelegramEnter("p1")
    \/ \E o \in SendtoOutcomes : Sendto("p1", o)

SpecStopped == Init /\ [][NextStopped]_vars

\* One light turned on with a requested host brightness, or without one, on
\* a started transport.
NextScale ==
    \/ Start("ready")
    \/ \E kw \in TurnOnArgs : AsyncTurnOn("p1", "L1", kw)
    \/ SendCommand("p1")
    \/ EnterSet("p1", TRUE)
    \/ SendTelegramEnter("p1")
    \/ \E o \in SendtoOutcomes : Sendto("p1", o)

SpecScale == Init /\ [][NextScale]_vars

\* Two covers of a started transport: their periodic updates, the commands
\* of the host and the responses of the module.
NextCover ==
    \/ Start("ready")
    \/ RegisterCallback("f")
    \/ \E k \in Covers : AsyncUpdate("p1", k)
    \/ \E k \in Covers, c \in CoverStates : CoverCommand("p1", k, c)
    \/ \E k \in Covers, c \in CoverStates : CoverReport(k, c)
    \/ SendTelegramEnter("p1")
    \/ \E o \in SendtoOutcomes : Sendto("p1", o)

SpecCover == Init /\ [][NextCover]_vars

\* The codec alone, on the valid telegram records.
NextCodec == \E t \in ValidTelegrams : RoundTrip(t)

SpecCodec == Init /\ [][NextCodec]_vars


\* ------------------------------------------------------------------ claims
\* C1: at most one send is in flight on the transport at any instant: no two
\* callers are at the hand-over of their datagram to the socket at once, and
\* the caller that is there holds both send locks.
C1_OneSendInFlight ==
    \A p \in Callers :
        pc[p] = "sendto" =>
            /\ ni_send_lock = p
            /\ udp_send_lock = p
            /\ \A q \in Callers \ {p} : pc[q] # "sendto"

\* A send is in flight while a command of another device waits for it.
C1_Witness ==
    \E p \in Callers, q \in Callers :
        /\ pc[p] = "sendto"
        /\ pc[q] = "ni_send_lock"
        /\ dev[p] # dev[q]


\* C5: set_on, set_off and set_brightness never raise to their caller,
\* whatever preparing and sending the command did: a call that has ended has
\* returned a boolean.
C5_SetReturnsBoolean ==
    last.op = "set" => last.value \in {"True", "False"}

\* A call in which preparing the command raised has returned False.
C5_Witness ==
    last.op = "set" /\ last.arg = "build_raised" /\ last.value = "False"

\* C6: the boolean returned by set_on / set_off / set_brightness is True
\* only if send_telegram reported success, and False whenever send_telegram
\* reported failure.
C6_SuccessFlag ==
    last.op = "set" =>
        /\ last.value = "True" => last.sent = "True"
        /\ last.sent = "False" => last.value = "False"

\* C7: the transport's send (and the Network Interface's call of it) ends
\* by returning a boolean; it returns False without an endpoint, on a socket
\* error and on a timeout, and True only when the datagram was handed to the
\* socket for the configured send address.
C7_SendReturns ==
    last.op = "set" =>
        /\ last.udp \in {None, "True", "False"}
        /\ last.sent \in {None, "True", "False"}
        /\ last.arg \in {"no_endpoint", "socket_error", "timeout"} =>
               last.udp = "False" /\ last.sent = "False" /\ last.handed = None
        /\ last.arg = "no_client" => last.sent = "False" /\ last.handed = None
        /\ last.udp = "True" => last.handed = GatewaySend

\* A send on which the socket raised has returned False.
C7_Witness ==
    last.op = "set" /\ last.arg = "socket_error" /\ last.udp = "False"


\* What a well-formed response telegram t reports for device d.
Reports(d, t) ==
    /\ t.target_address = device_address[d]
    /\ \/ /\ t.operate_code = SingleChannelControlResponse
          /\ Len(t.payload) = 3
          /\ t.payload[1] = channel[d]
       \/ /\ t.operate_code = ReadStatusOfChannelsResponse
          /\ Len(t.payload) = t.payload[1] + 1
          /\ channel[d] <= t.payload[1]
ReportedLevel(d, t) ==
    IF t.operate_code = SingleChannelControlResponse
    THEN t.payload[3]
    ELSE t.payload[channel[d] + 1]

\* C2: when set_brightness(v) / set_on / set_off starts to run, the
\* brightness reads v at once, before the command is sent; and a response
\* telegram that reports w for the device makes the brightness w.
C2_OptimisticThenAuthoritative ==
    [][/\ \A p \in Callers :
              (pc[p] = "command_lock" /\ pc'[p] # "command_lock") =>
                  brightness'[dev[p]] = intensity[p]
       /\ \A d \in Devices :
              (/\ last'.op = "receive"
               /\ last'.arg = "telegram"
               /\ Reports(d, last'.telegram)) =>
                  brightness'[d] = ReportedLevel(d, last'.telegram)]_vars

\* While a command is on its way, a response has replaced its optimistic
\* value by another one.
C2_Witness ==
    \E p \in Callers :
        /\ pc[p] \in {"ni_send_lock", "sendto"}
        /\ last.op = "receive"
        /\ dev[p] \in last.notified
        /\ brightness[dev[p]] # intensity[p]

\* Is telegram t for device d: for its module and, when it names channels,
\* for its channel?
ForDevice(d, t) ==
    /\ t.target_address = device_address[d]
    /\ t.operate_code = SingleChannelControlResponse => t.payload[1] = channel[d]
    /\ t.operate_code = ReadStatusOfChannelsResponse => channel[d] <= t.payload[1]

\* C3: a telegram that is not for device B (it is for another module, or for
\* another channel of B's module) changes neither B's brightness nor B's
\* previous brightness and does not notify B's observers.
C3_FanOutIsolation ==
    [][\A d \in Devices :
          (/\ last'.op = "receive"
           /\ last'.arg = "telegram"
           /\ ~ForDevice(d, last'.telegram)) =>
              /\ brightness'[d] = brightness[d]
              /\ previous_brightness'[d] = previous_brightness[d]
              /\ d \notin last'.notified]_vars

\* A response for channel 2 of the module has set L2 and left L1, on
\* channel 1 of the same module, at another level.
C3_Witness ==
    /\ last.op = "receive"
    /\ last.arg = "telegram"
    /\ last.telegram.operate_code = SingleChannelControlResponse
    /\ last.notified = {"L2"}
    /\ brightness["L2"] # brightness["L1"]

\* C4: the observers of a device are notified by every step that changes
\* its brightness, a command's optimistic write as well as a telegram.
C4_NotifiedOnEveryMutation ==
    [][\A d \in Devices :
          brightness'[d] # brightness[d] => d \in last'.notified]_vars

\* C8: no exception leaves the receive path, and a datagram that does not
\* decode is not dispatched to the callback.
C8_MalformedContained ==
    last.op = "receive" =>
        /\ ~last.escaped
        /\ last.arg = "malformed" => ~last.dispatched

\* C9: a start() in which binding the receive endpoint failed does not
\* return normally: it raises.
C9_StartRaisesOnBindFailure ==
    (last.op = "start" /\ last.arg = "bind_failed") => last.value = "raised"

\* C10: a stop() called when the endpoint is already closed does not call
\* close() on it again.
C10_SecondStopIsNoOp ==
    (last.op = "stop" /\ last.was = "closed") => ~last.closed

\* C11: stop() is safe while sends are in flight: a stop() called on an open
\* endpoint while a send is in flight closes the endpoint in that call, no
\* step of a send closes or reopens it, every command that ends after the
\* stop returns a boolean (it does not raise), and a lock is held only by a
\* task that is still inside the section it guards.
C11_StopWhileSending ==
    [][/\ (/\ last'.op = "stop"
            /\ transport = "open"
            /\ \E p \in Tasks : pc[p] = "sendto") =>
               (transport' = "closed" /\ last'.closed)
       /\ last'.op \notin {"stop", "start"} => transport' = transport
       /\ (last'.op = "set" /\ (transport # "open" \/ udp_client = None)) =>
               last'.value \in {"True", "False"}
       /\ \A p \in Tasks :
              /\ ni_send_lock' = p => pc'[p] = "sendto"
              /\ udp_send_lock' = p => pc'[p] = "sendto"
              /\ \A d \in Devices :
                     command_lock'[d] = p =>
                         (pc'[p] \in {"ni_send_lock", "sendto"} /\ dev'[p] = d)]_vars

\* The interface was stopped, and the endpoint closed, while a send was in
\* flight and another command waited for the send lock.
C11_Witness ==
    /\ last.op = "stop"
    /\ last.closed
    /\ transport = "closed"
    /\ \E p \in Callers, q \in Callers : pc[p] = "sendto" /\ pc[q] = "ni_send_lock"

\* C12: the Network Interface holds exactly one callback: after
\* register_callback(g) the callback held is g, and a decoded telegram is
\* delivered to the callback registered last, never to the one it replaced.
C12_OneCallback ==
    /\ last.op = "register" => callback = last.arg
    /\ (last.op = "receive" /\ last.dispatched) =>
           /\ last.cb = callback
           /\ last.cb # replaced
           /\ last.cb \in Callbacks

\* After f was replaced by g, a telegram was delivered to g.
C12_Witness ==
    /\ last.op = "receive"
    /\ last.dispatched
    /\ replaced = "f"
    /\ last.cb = "g"

\* C13: when a command issued through the entity ends without having been
\* sent (send_telegram reported failure, a timeout expired, or an exception
\* occurred), the step in which it ends leaves the optimistic value in
\* place, the task does not send the command again, and a status read of
\* the device is scheduled.
C13_FailureSchedulesStatusRead ==
    [][\A p \in Callers :
          (/\ pc[p] # "idle"
           /\ pc'[p] = "idle"
           /\ via[p] \in EntityVias
           /\ (last'.sent = "False" \/ last'.value # "True")) =>
              /\ brightness' = brightness
              /\ previous_brightness' = previous_brightness
              /\ dev[p] \in last'.refresh]_vars

\* C16: the brightness and the previous brightness of a device change only
\* in a step of the device itself: the optimistic write of its own command
\* (Light._set taking the command lock), or the receipt of a telegram for
\* its module and channel; no step of another component writes them.
C16_StateOwnedByDevice ==
    [][\A d \in Devices :
          (brightness'[d] # brightness[d]
              \/ previous_brightness'[d] # previous_brightness[d]) =>
             \/ \E p \in Tasks :
                    /\ pc[p] = "command_lock"
                    /\ dev[p] = d
                    /\ pc'[p] \in {"ni_send_lock", "idle"}
                    /\ last'.op # "send_command"
             \/ /\ last'.op = "receive"
                /\ last'.arg = "telegram"
                /\ ForDevice(d, last'.telegram)]_vars

\* The levels a device in state Known(value) publishes.
KnownLevels == 0..100

\* C17: a newly created device is Unknown: what it publishes is none of
\* the levels of Known(value), Known(0) included; and it becomes known
\* only by a command issued on it or by a telegram received for it.
C17_NewDeviceIsUnknown ==
    /\ \A d \in Devices : current_brightness(d) \notin KnownLevels
    /\ [][\A d \in Devices :
              (brightness[d] \notin KnownLevels /\ brightness'[d] \in KnownLevels) =>
                 \/ \E p \in Tasks : dev'[p] = d \/ dev[p] = d
                 \/ /\ last'.op = "receive"
                    /\ last'.arg = "telegram"
                    /\ ForDevice(d, last'.telegram)]_vars

\* C14: a send_telegram call never takes longer than its deadline, the time
\* it waits for the send lock held by another sender included: at no
\* instant has a call been in progress for more than SendTelegramTimeout.
C14_DeadlineBoundsLatency ==
    \A p \in Tasks :
        pc[p] \in {"ni_send_lock", "sendto"} => elapsed[p] <= SendTelegramTimeout

\* C15: inbound dispatch is synchronous and in order: the step that
\* receives a datagram which decodes, with a callback registered, invokes the
\* callback exactly once, with the telegram of that datagram; no callback is
\* invoked for a datagram that does not decode or when none is registered,
\* and no other step invokes it (nothing is kept for later delivery).
C15_InOrderDelivery ==
    /\ (last.op = "receive" /\ last.arg \in {"telegram", "malformed"}) =>
           IF build_telegram_from_udp_data(last.data) # MalformedFrame
           THEN /\ last.dispatched
                /\ last.delivered = <<build_telegram_from_udp_data(last.data)>>
           ELSE last.delivered = <<>>
    /\ (last.op # "receive" \/ last.arg = "dropped") => last.delivered = <<>>

\* A status response was received and handed to the callback, once.
C15_Witness ==
    /\ last.op = "receive"
    /\ last.arg = "telegram"
    /\ Len(last.delivered) = 1
    /\ last.delivered[1].operate_code = ReadStatusOfChannelsResponse
    /\ last.delivered[1].payload = <<2, 80, 0>>

\* C18: codec round trip: for every supported operate code and every valid
\* telegram record t, decoding the frame that encoding t gives returns t:
\* the same source and target address, operate code and payload.
C18_RoundTrip ==
    last.op = "codec" =>
        /\ last.delivered = <<last.telegram>>
        /\ build_telegram_from_udp_data(last.data) = last.telegram

\* A status response with a level byte equal to the marker byte made the
\* round trip between two different addresses.
C18_Witness ==
    /\ last.op = "codec"
    /\ last.telegram.operate_code = ReadStatusOfChannelsResponse
    /\ last.telegram.payload = <<3, 170, 170, 0>>
    /\ last.telegram.source_address # last.telegram.target_address
    /\ last.delivered[1].payload = <<3, 170, 170, 0>>

\* C19: a SceneControlResponse changes neither the brightness nor the
\* previous brightness of any device and notifies no observer; every device
\* of the module it is addressed to requests a status read, whatever the
\* payload and the device's channel, and no other device does.
C19_SceneTriggersStatusRead ==
    [][(/\ last'.op = "receive"
        /\ last'.arg = "telegram"
        /\ last'.telegram.operate_code = SceneControlResponse) =>
           /\ brightness' = brightness
           /\ previous_brightness' = previous_brightness
           /\ last'.notified = {}
           /\ last'.reads =
                  {d \in Devices : device_address[d] = last'.telegram.target_address}
           /\ ~last'.escaped]_vars

\* A scene response that names channel 2 made both lights of the module,
\* on channels 1 and 2, request a status read, with L1 at a level it got
\* from an earlier telegram.
C19_Witness ==
    /\ last.op = "receive"
    /\ last.arg = "telegram"
    /\ last.telegram.operate_code = SceneControlResponse
    /\ last.telegram.payload = <<2, 80>>
    /\ last.reads = {"L1", "L2"}
    /\ brightness["L1"] = 80

\* C20: a ReadStatusOfChannelsResponse (with a level byte for each channel
\* it counts) for the module of device d: when its count is smaller than
\* d's channel, d's brightness and previous brightness are unchanged, d's
\* observers are not notified and no exception is raised; when the channel
\* is within the count, d's brightness becomes the level byte at index
\* channel and d's observers are notified.
C20_OutOfRangeIgnored ==
    [][\A d \in Devices :
          (/\ last'.op = "receive"
           /\ last'.arg = "telegram"
           /\ last'.telegram.operate_code = ReadStatusOfChannelsResponse
           /\ last'.telegram.target_address = device_address[d]
           /\ Len(last'.telegram.payload) = last'.telegram.payload[1] + 1) =>
              IF last'.telegram.payload[1] < channel[d]
              THEN /\ brightness'[d] = brightness[d]
                   /\ previous_brightness'[d] = previous_brightness[d]
                   /\ d \notin last'.notified
                   /\ ~last'.escaped
              ELSE /\ brightness'[d] = last'.telegram.payload[channel[d] + 1]
                   /\ d \in last'.notified]_vars

\* A status response that counts one channel set L1 and was ignored by L2,
\* on channel 2 of the same module.
C20_Witness ==
    /\ last.op = "receive"
    /\ last.arg = "telegram"
    /\ last.telegram.operate_code = ReadStatusOfChannelsResponse
    /\ last.telegram.payload = <<1, 80>>
    /\ last.telegram.target_address = Addr1
    /\ last.notified = {"L1"}
    /\ ~last.escaped
    /\ brightness["L2"] = 0

\* C21: the Network Interface makes a single attempt per send_telegram
\* call: a call that ends has called sendto at most once (not at all
\* without an endpoint), whether the sendto succeeded, failed or timed out,
\* and the task that leaves the send is back at its caller, not in a
\* second send.
C21_SingleAttempt ==
    [][/\ last'.op \in {"set", "send"} =>
              /\ last'.attempts <= 1
              /\ last'.arg \in {"no_client", "no_endpoint"} => last'.attempts = 0
              /\ last'.arg \in {"socket_error", "timeout"} =>
                     (last'.attempts = 1 /\ last'.sent = "False")
       /\ \A p \in Tasks :
              (pc[p] = "sendto" /\ pc'[p] # "sendto") => pc'[p] = "idle"]_vars

\* A send timed out after its one attempt and reported failure.
C21_Witness ==
    /\ last.op = "set"
    /\ last.arg = "timeout"
    /\ last.attempts = 1
    /\ last.sent = "False"

\* C22: a start() in which the endpoint did not become ready within the
\* grace period ends (it does not hang), ends with a failure, and leaves no
\* transport that a send would use.
C22_StartFailsWhenNotReady ==
    (last.op = "start" /\ last.arg = "not_ready") =>
        /\ last.value = "raised"
        /\ ~has_endpoint

\* The positions of a command between its optimistic write and the end of
\* its send, where it holds the device's command lock.
InCommand == {"ni_send_lock", "sendto"}

\* C23: the commands on one device are ordered by its command lock: at most
\* one command of a device is between its optimistic write and the end of
\* its send; the brightness is written only by the command that takes the
\* lock, with its own value, while no other command of the device is under
\* way (so the value of the last to take the lock stays); and the command
\* handed to the socket carries the value applied last.
C23_CommandsOrdered ==
    [][\A d \in Devices :
          /\ \A p \in Tasks, q \in Tasks :
                 (/\ dev'[p] = d /\ pc'[p] \in InCommand
                  /\ dev'[q] = d /\ pc'[q] \in InCommand) => p = q
          /\ brightness'[d] # brightness[d] =>
                 \E p \in Tasks :
                     /\ pc[p] = "command_lock"
                     /\ pc'[p] # "command_lock"
                     /\ dev[p] = d
                     /\ brightness'[d] = intensity[p]
                     /\ \A q \in Tasks : dev[q] = d => pc[q] \notin InCommand
          /\ (last'.op = "set" /\ last'.handed # None /\ last'.device = d) =>
                 last'.scc.channel_level = brightness[d]]_vars

\* While the command of one task is being sent, a command with another
\* level for the same light waits for the command lock.
C23_Witness ==
    \E p \in Callers, q \in Callers :
        /\ dev[p] = dev[q]
        /\ pc[p] = "sendto"
        /\ pc[q] = "command_lock"
        /\ intensity[p] # intensity[q]
        /\ brightness[dev[p]] = intensity[p]

\* C24: async_turn_on without a brightness restores the previous level:
\* the level it computes and writes is the previous brightness when one is
\* recorded and the light is off, and 100 otherwise; and that level is the
\* one the command is issued with and the one handed to the socket.
C24_TurnOnRestoresPrevious ==
    [][\A p \in Callers :
          /\ (pc[p] = "idle" /\ via'[p] = "turn_on") =>
                 /\ intensity'[p] =
                        IF previous_brightness[dev'[p]] # NoLevel
                               /\ brightness[dev'[p]] = 0
                        THEN previous_brightness[dev'[p]][1]
                        ELSE 100
                 /\ brightness'[dev'[p]] = intensity'[p]
          /\ (via[p] = "turn_on" /\ via'[p] = "turn_on") =>
                 intensity'[p] = intensity[p]
          /\ (/\ via[p] = "turn_on"
              /\ pc[p] = "sendto"
              /\ last'.op = "set"
              /\ last'.handed # None
              /\ last'.device = dev[p]
              /\ pc'[p] = "idle") =>
                 last'.scc.channel_level = intensity[p]]_vars

\* C25: the timeout budgets are strictly nested: the raw send's timeout is
\* shorter than the Network Interface's two timeouts; and the timeout of a
\* device command (and of the entity's wrapper) is longer than the raw
\* send's, so that it is not due while the raw send of the command, which
\* started without waiting, is still within its own timeout.
C25_TimeoutsNested ==
    /\ RawSendTimeout < SendMessageTimeout
    /\ RawSendTimeout < SendTelegramTimeout
    /\ \A p \in Tasks :
           (pc[p] = "sendto" /\ dev[p] \in Devices /\ armed[p] <= RawSendTimeout) =>
               /\ elapsed[p] < CommandTimeLimit
               /\ via[p] \in EntityVias => elapsed[p] < SendCommandTimeLimit

\* C26: no deadlock and no leaked lock: the transport's send lock is held
\* only by the holder of the Network Interface's send lock, and that one
\* only by a command that holds its device's command lock (the order of
\* acquisition); a lock is held only by a task that is inside the section
\* it guards, on whatever path the others left it; and every command that
\* was issued eventually returns.
C26_NoDeadlockNoLeak ==
    /\ [](\A p \in Tasks :
             /\ udp_send_lock = p => ni_send_lock = p
             /\ ni_send_lock = p =>
                    /\ pc[p] = "sendto"
                    /\ dev[p] \in Devices => command_lock[dev[p]] = p
             /\ \A d \in Devices :
                    command_lock[d] = p => (pc[p] \in InCommand /\ dev[p] = d))
    /\ \A p \in LockTasks : (pc[p] # "idle") ~> (pc[p] = "idle")

\* A command gave up waiting for the send lock, which another command
\* holds, and left its device's command lock free.
C26_Witness ==
    /\ last.op = "set"
    /\ last.arg = "set_timeout"
    /\ ni_send_lock # None
    /\ command_lock[last.device] = None
    /\ \A p \in LockTasks : dev[p] # last.device

\* C27: the previous brightness of a device is always unset or strictly
\* greater than 0: a command with level 0 and a response that reports 0
\* leave it unchanged, and a command or a response with a level v > 0
\* sets it to v.
C27_PreviousBrightnessPositive ==
    /\ [](\A d \in Devices :
             previous_brightness[d] = NoLevel \/ previous_brightness[d][1] > 0)
    /\ [][/\ \A p \in Callers :
               (pc[p] = "command_lock" /\ pc'[p] # "command_lock") =>
                   previous_brightness'[dev[p]] =
                       IF intensity[p] > 0
                       THEN Level(intensity[p])
                       ELSE previous_brightness[dev[p]]
          /\ \A d \in Devices :
               (/\ last'.op = "receive"
                /\ last'.arg = "telegram"
                /\ Reports(d, last'.telegram)) =>
                   previous_brightness'[d] =
                       IF ReportedLevel(d, last'.telegram) > 0
                       THEN Level(ReportedLevel(d, last'.telegram))
                       ELSE previous_brightness[d]]_vars

\* A response reported level 0 for L1, whose previous brightness stays the
\* 80 of an earlier command or response.
C27_Witness ==
    /\ last.op = "receive"
    /\ last.arg = "telegram"
    /\ "L1" \in last.notified
    /\ brightness["L1"] = 0
    /\ previous_brightness["L1"] = Level(80)

\* C28: a start() in which creating or binding the socket failed leaves the
\* transport without an endpoint; a send that ends while there is no
\* endpoint returns False and hands no datagram to a socket; and the
\* transport gets an endpoint only by a start() that succeeds.
C28_FailedStartHasNoEndpoint ==
    [][/\ (last'.op = "start" /\ last'.arg = "bind_failed") => transport' = None
       /\ (transport = None /\ last'.op \in {"set", "send"}) =>
              (last'.sent = "False" /\ last'.handed = None)
       /\ (transport = None /\ transport' # None) =>
              (last'.op = "start" /\ last'.arg \notin {"bind_failed", "endpoint_failed"})]_vars

\* C29: after a stop() of the transport or of the Network Interface, a
\* send does not reach the closed endpoint: when the endpoint is closed or
\* the interface has let go of its transport, the call that gets to
\* send_message ends there, returns False and hands no datagram over.
C29_NoSendAfterStop ==
    [][\A p \in Tasks :
          (/\ pc[p] = "ni_send_lock"
           /\ pc'[p] # "ni_send_lock"
           /\ last'.arg # "set_timeout"
           /\ (transport = "closed" \/ udp_client = None)) =>
              /\ pc'[p] = "idle"
              /\ last'.sent = "False"
              /\ last'.handed = None]_vars

\* C30: while no callback is registered, a received datagram is dropped
\* without being decoded or dispatched: the step changes no device's state,
\* notifies nobody, requests no status read, raises nothing and delivers
\* nothing; and the registration of a callback delivers nothing either, so
\* that no callback sees a datagram received before it was registered.
C30_DroppedWithoutCallback ==
    [][/\ (callback = None /\ last'.op = "receive") =>
              /\ last'.arg = "dropped"
              /\ ~last'.dispatched
              /\ last'.delivered = <<>>
              /\ ~last'.escaped
              /\ last'.notified = {}
              /\ last'.reads = {}
              /\ brightness' = brightness
              /\ previous_brightness' = previous_brightness
       /\ last'.op = "register" =>
              /\ ~last'.dispatched
              /\ last'.delivered = <<>>
              /\ brightness' = brightness
              /\ previous_brightness' = previous_brightness]_vars

\* A datagram arrived on the started transport before any callback was
\* registered, and was dropped.
C30_Witness ==
    /\ last.op = "receive"
    /\ last.arg = "dropped"
    /\ transport = "open"
    /\ callback = None
    /\ \A d \in Devices : brightness[d] = 0

\* C31: async_turn_on with a requested host brightness b in 1..255 commands
\* a device level in 1..100 and the light ends on; b = 255 commands level
\* 100; and no command handed to the transport carries a level outside
\* 0..100.
C31_BrightnessScale ==
    /\ (last.op = "turn" /\ last.kwargs # <<>>) =>
           \A p \in Tasks :
               (pc[p] = "send_command" /\ dev[p] = last.device) =>
                   /\ intensity[p] \in 0..100
                   /\ last.kwargs[1] \in 1..255 =>
                          (intensity[p] \in 1..100 /\ is_on(last.device))
                   /\ last.kwargs[1] = 255 => intensity[p] = 100
    /\ (last.op = "set" /\ last.handed # None) =>
           last.scc.channel_level \in 0..100

\* C32: every periodic update of a cover entity issues a status read to the
\* device, also when the cover's status is already known (from a response
\* or from the optimistic write of a command): the update step requests
\* the read and its task goes on to send it.
C32_UpdateReadsStatus ==
    [][last'.op = "update" =>
          /\ last'.device \in last'.reads
          /\ \E p \in Tasks :
                 /\ pc[p] = "idle"
                 /\ pc'[p] = "ni_send_lock"
                 /\ via'[p] = "read_status"]_vars

====
